---- MODULE Spec2Model ----
(***************************************************************************)
(* Model of LittlePaimon/utils/tool.py (DailyNumberLimiter, FreqLimiter,   *)
(* the cache decorator) and of the cache-wrapped API functions of          *)
(* hoshino/modules/Genshin_Paimon/get_data.py.                             *)
(***************************************************************************)
EXTENDS Integers, Sequences, FiniteSets, TLC

(***************************************************************************)
(* Bounds of the model.                                                    *)
(***************************************************************************)
DaysPerMonth == 3     \* length of a month of the model's calendar
MaxDate == 8          \* last calendar date the clock reaches
MaxMax == 2           \* largest max_num a limiter is constructed with
MaxCount == 3         \* cap on a counter's value
MaxNum == 2           \* largest amount passed to increase
TicksPerSec == 2      \* resolution of time.time(): clock ticks in a second
Epoch == 1            \* the tick at which the process starts
MaxTicks == 4         \* single ticks the clock makes between two long waits
MaxJumps == 1         \* long waits the clock makes
MaxDur == 2           \* largest cooldown_time passed to start, in seconds
Ttl == 2              \* the ttl the decorator is applied with, in clock ticks
MaxClock == 4         \* last tick of datetime.datetime.now() that is reached
MaxCalls == 4         \* calls of the wrapped function that are made
MaxOverlap == 3       \* calls that are made when calls may overlap
MaxEntries == 2       \* longest resource list
MaxApiCalls == 2      \* calls of a cache-wrapped API function that are made
MaxApiClock == 2      \* last tick of the clock of the API functions
ApiTtl == 1           \* ttl of the API functions (one hour), in ticks
MaxLoop == 2          \* value at which the counters of one call stop counting

Keys == {"u1", "u2"}

None == "None"

(***************************************************************************)
(* DailyNumberLimiter                                                      *)
(***************************************************************************)
VARIABLES
    date,           \* the calendar date in Asia/Shanghai, counted in days from 1
    today,          \* self.today: day of month of the last rollover, -1 at first
    count,          \* self.count: a defaultdict(int); its domain is the keys present
    max,            \* self.max
    dLastOp,        \* history: the last operation served
    dRet,           \* history: what the last operation returned
    incRun,         \* history: increase(key) calls since the last reset(key) or date change
    incToday,       \* history: increase(key) calls on the current date
    lastCheckDate   \* history: the date at the previous check call, 0 if none

dvars == <<date, today, count, max, dLastOp, dRet, incRun, incToday, lastCheckDate>>

(***************************************************************************)
(* FreqLimiter                                                             *)
(***************************************************************************)
VARIABLES
    now,            \* time.time(), in ticks
    next_time,      \* self.next_time: a defaultdict(float), in ticks
    fLastOp,        \* history: the last operation served
    fRet,           \* history: what the last operation returned
    started,        \* history: the keys start was called on
    startT,         \* history: the time of the last start(key)
    startD          \* history: the cooldown_time of the last start(key)

fvars == <<now, next_time, fLastOp, fRet, started, startT, startD>>

(***************************************************************************)
(* cache(ttl): the state of one decorated function                         *)
(***************************************************************************)
VARIABLES
    clock,          \* datetime.datetime.now(), in ticks
    cache_data,     \* cache_data: ins_key -> the dict object stored, NoObj if absent
    heap,           \* the dict objects {"time", "value"} that are alive
    serial,         \* invocations of func made so far
    pc,             \* per task: "idle", or "await" inside await func(...)
    ckey,           \* per task: ins_key of the call
    cnow,           \* per task: the local now
    cdata,          \* per task: the dict object the local data refers to
    cinv,           \* per task: the serial number of its invocation of func
    log,            \* history: the calls that ended, in the order they ended
    begun           \* history: per invocation of func, the calls that had ended when it began

cvars == <<clock, cache_data, heap, serial, pc, ckey, cnow, cdata, cinv, log, begun>>

(***************************************************************************)
(* cache(ttl): the key of a call (lines 97-99)                             *)
(***************************************************************************)
VARIABLES
    kcall,          \* the two calls that are compared: positional and keyword arguments
    kkey            \* ins_key of each of them once wrapped computed it, <<>> before

kvars == <<kcall, kkey>>

(***************************************************************************)
(* check_resource                                                          *)
(***************************************************************************)
VARIABLES
    rpc,            \* position: "start", "loop" (line 128), "download" (line 137), "done"
    resource_list,  \* the list read from resources_list.json
    ridx,           \* position of resource in resource_list
    flag,           \* flag
    fs,             \* the files below RESOURCE_BASE_PATH: path -> md5 of the content, Absent
    fs0,            \* history: the files when check_resource began
    rfetch,         \* history: how reading the list ended: "none", "ok", "failed"
    rseen,          \* history: per entry examined, the file it found
    rops            \* history: per entry examined, what was done, in order

rvars == <<rpc, resource_list, ridx, flag, fs, fs0, rfetch, rseen, rops>>

(***************************************************************************)
(* get_data.py: one cache-wrapped API function                             *)
(***************************************************************************)
VARIABLES
    afn,            \* the function that is called
    aclock,         \* datetime.datetime.now(), in ticks
    acache,         \* cache_data of the function: use_cache of the call -> entry
    apc,            \* position in the call: "idle", "cookie", "request", "check"
    akey,           \* use_cache of the call, the part of ins_key that varies
    anow,           \* now of the call
    apool,          \* history: times the call asked for a cookie, up to MaxLoop
    areq,           \* history: requests the call sent, up to MaxLoop
    arej,           \* history: responses of the call check_retcode rejected, up to MaxLoop
    alog            \* history: the calls that ended

avars == <<afn, aclock, acache, apc, akey, anow, apool, areq, arej, alog>>

vars == <<dvars, fvars, cvars, kvars, rvars, avars>>

\* datetime.day: the day of the month, 1..DaysPerMonth
DayOfMonth(d) == ((d - 1) % DaysPerMonth) + 1

\* an empty defaultdict(int)
EmptyCount == [k \in {} |-> 0]

\* reading d[key] of a defaultdict(int): 0 for a key that is not present
Get(d, key) == IF key \in DOMAIN d THEN d[key] ELSE 0

\* reading d[key] of a defaultdict(int) adds a missing key with value 0
Touch(d, key) == IF key \in DOMAIN d THEN d ELSE [k \in DOMAIN d \cup {key} |-> IF k = key THEN 0 ELSE d[k]]

\* writing d[key] = v
Put(d, key, v) == [k \in DOMAIN d \cup {key} |-> IF k = key THEN v ELSE d[k]]

\* check, lines 29-33: the counts after the rollover test
RolledCount == IF DayOfMonth(date) # today THEN EmptyCount ELSE count

\* CheckRet with <= in place of <
CheckRet_le(key) == Get(RolledCount, key) <= max

\* check, line 34: the value check(key) returns in the current state
CheckRet(key) == Get(RolledCount, key) < max

\* get_num, line 37
GetNumRet(key) == Get(count, key)

InitDaily ==
    /\ date = 1
    /\ today = -1
    /\ count = EmptyCount
    /\ max \in 1..MaxMax
    /\ dLastOp = <<"init">>
    /\ dRet = None
    /\ incRun = [k \in Keys |-> 0]
    /\ incToday = [k \in Keys |-> 0]
    /\ lastCheckDate = 0

\* the clock passes midnight in Asia/Shanghai
AdvanceDay ==
    /\ dLastOp' = <<"midnight">>
    /\ date < MaxDate
    /\ date' = date + 1
    /\ incRun' = [k \in Keys |-> 0]
    /\ incToday' = [k \in Keys |-> 0]
    /\ UNCHANGED <<today, count, max, dRet, lastCheckDate>>

Check(key) ==
    /\ dLastOp' = <<"check", key>>
    /\ today' = DayOfMonth(date)
    /\ count' = Touch(RolledCount, key)
    /\ dRet' = CheckRet(key)
    /\ lastCheckDate' = date
    /\ UNCHANGED <<date, max, incRun, incToday>>

GetNum(key) ==
    /\ dLastOp' = <<"get_num", key>>
    /\ count' = Touch(count, key)
    /\ dRet' = GetNumRet(key)
    /\ UNCHANGED <<date, today, max, incRun, incToday, lastCheckDate>>

Increase(key, num) ==
    /\ dLastOp' = <<"increase", key>>
    /\ Get(count, key) + num <= MaxCount
    /\ count' = Put(count, key, Get(count, key) + num)
    /\ dRet' = None
    /\ incRun' = [incRun EXCEPT ![key] = IF @ < MaxCount THEN @ + 1 ELSE @]
    /\ incToday' = [incToday EXCEPT ![key] = IF @ < MaxCount THEN @ + 1 ELSE @]
    /\ UNCHANGED <<date, today, max, lastCheckDate>>

Reset(key) ==
    /\ dLastOp' = <<"reset", key>>
    /\ count' = Put(count, key, 0)
    /\ dRet' = None
    /\ incRun' = [incRun EXCEPT ![key] = 0]
    /\ UNCHANGED <<date, today, max, incToday, lastCheckDate>>

NextDaily ==
    \/ AdvanceDay
    \/ \E key \in Keys : Check(key)
    \/ \E key \in Keys : GetNum(key)
    \/ \E key \in Keys, num \in 1..MaxNum : Increase(key, num)
    \/ \E key \in Keys : Reset(key)

(***************************************************************************)
(* FreqLimiter                                                             *)
(***************************************************************************)
DefaultCooldown == 60

\* the cooldown_time values start is called with, 0 being the default
Durs == -1..MaxDur

\* the long wait: one tick short of the default cooldown
JumpLen == DefaultCooldown * TicksPerSec - 1

\* int(x) of a float x = n / q: truncation towards zero
Trunc(n, q) == IF n >= 0 THEN n \div q ELSE -((-n) \div q)

\* FreqCheckRet with > in place of >=
FreqCheckRet_gt(key) == now > Get(next_time, key)

\* check, line 63
FreqCheckRet(key) == now >= Get(next_time, key)

\* CooldownOf that keeps a cooldown_time of 0
CooldownOf_ge0(d) == IF d >= 0 THEN d ELSE DefaultCooldown

\* CooldownOf that always takes the default
CooldownOf_default(d) == DefaultCooldown

\* start, line 71: cooldown_time if cooldown_time > 0 else 60, in seconds
CooldownOf(d) == IF d > 0 THEN d ELSE DefaultCooldown

\* LeftRet without the + 1
LeftRet_noplus(key) == Trunc(Get(next_time, key) - now, TicksPerSec)

\* left, line 79
LeftRet(key) == Trunc(Get(next_time, key) - now, TicksPerSec) + 1

InitFreq ==
    /\ now = Epoch
    /\ next_time = EmptyCount
    /\ fLastOp = <<"init">>
    /\ fRet = None
    /\ started = {}
    /\ startT = [k \in Keys |-> 0]
    /\ startD = [k \in Keys |-> 0]

\* the clock advances by one tick
Tick ==
    /\ fLastOp' = <<"tick">>
    /\ (now - Epoch) % JumpLen < MaxTicks
    /\ now' = now + 1
    /\ UNCHANGED <<next_time, fRet, started, startT, startD>>

\* the clock advances by a long wait
Jump ==
    /\ fLastOp' = <<"jump">>
    /\ (now - Epoch) \div JumpLen < MaxJumps
    /\ now' = now + JumpLen
    /\ UNCHANGED <<next_time, fRet, started, startT, startD>>

FreqCheck(key) ==
    /\ fLastOp' = <<"check", key>>
    /\ next_time' = Touch(next_time, key)
    /\ fRet' = FreqCheckRet(key)
    /\ UNCHANGED <<now, started, startT, startD>>

FreqStart(key, d) ==
    /\ fLastOp' = <<"start", key, d>>
    /\ next_time' = Put(next_time, key, now + CooldownOf(d) * TicksPerSec)
    /\ fRet' = None
    /\ started' = started \cup {key}
    /\ startT' = [startT EXCEPT ![key] = now]
    /\ startD' = [startD EXCEPT ![key] = d]
    /\ UNCHANGED now

FreqLeft(key) ==
    /\ fLastOp' = <<"left", key>>
    /\ next_time' = Touch(next_time, key)
    /\ fRet' = LeftRet(key)
    /\ UNCHANGED <<now, started, startT, startD>>

NextFreq ==
    \/ Tick
    \/ Jump
    \/ \E key \in Keys : FreqCheck(key)
    \/ \E key \in Keys, d \in Durs : FreqStart(key, d)
    \/ \E key \in Keys : FreqLeft(key)

(***************************************************************************)
(* cache(ttl)                                                              *)
(***************************************************************************)
\* the values of ins_key (line 99) the calls are made with
InsKeys == {"k1", "k2"}

\* the tasks that call the wrapped function
Procs == {"p1", "p2"}

NoObj == 0      \* no dict object
NoTime == -1    \* "time": None
NoValue == 0    \* "value": None
Raised == -1    \* the call ended by an exception

\* default_data, line 100
DefaultData == [time |-> NoTime, value |-> NoValue]

\* IsStale with >= in place of >
IsStale_ge(tm, t) == tm = NoTime \/ t - tm >= Ttl

\* line 103: not data['time'] or now - data['time'] > ttl
IsStale(tm, t) == tm = NoTime \/ t - tm > Ttl

\* line 101: the "time" of cache_data.get(ins_key, default_data)
DataTime(key) == IF cache_data[key] = NoObj THEN DefaultData.time ELSE heap[cache_data[key]].time

\* the entry of a key as a caller can observe it
Entry(key) == IF cache_data[key] = NoObj THEN DefaultData ELSE heap[cache_data[key]]

InFlight == {p \in Procs : pc[p] = "await"}

InitCache ==
    /\ clock = 0
    /\ cache_data = [k \in InsKeys |-> NoObj]
    /\ heap = [o \in {} |-> DefaultData]
    /\ serial = 0
    /\ pc = [p \in Procs |-> "idle"]
    /\ ckey = [p \in Procs |-> "k1"]
    /\ cnow = [p \in Procs |-> 0]
    /\ cdata = [p \in Procs |-> NoObj]
    /\ cinv = [p \in Procs |-> 0]
    /\ log = <<>>
    /\ begun = <<>>

\* the call of task p ends: its locals are gone
EndLocals(p) ==
    /\ ckey' = [ckey EXCEPT ![p] = "k1"]
    /\ cnow' = [cnow EXCEPT ![p] = 0]
    /\ cdata' = [cdata EXCEPT ![p] = NoObj]
    /\ cinv' = [cinv EXCEPT ![p] = 0]

\* datetime.datetime.now() advances
ClockTick ==
    /\ clock < MaxClock
    /\ clock' = clock + 1
    /\ UNCHANGED <<cache_data, heap, serial, pc, ckey, cnow, cdata, cinv, log, begun>>

\* wrapped, lines 97-103 and 110: the entry is fresh, its value is returned
WrappedHit(p, key) ==
    /\ pc[p] = "idle"
    /\ Len(log) + Cardinality(InFlight) < MaxCalls
    /\ ~IsStale(DataTime(key), clock)
    /\ log' = Append(log, [key |-> key, start |-> clock, invoked |-> FALSE,
                            result |-> heap[cache_data[key]].value])
    /\ UNCHANGED <<clock, cache_data, heap, serial, pc, ckey, cnow, cdata, cinv, begun>>

\* wrapped, lines 97-105: the entry is absent or stale, func is invoked and awaited
WrappedMiss(p, key) ==
    /\ pc[p] = "idle"
    /\ Len(log) + Cardinality(InFlight) < MaxCalls
    /\ IsStale(DataTime(key), clock)
    /\ serial' = serial + 1
    /\ cinv' = [cinv EXCEPT ![p] = serial + 1]
    /\ ckey' = [ckey EXCEPT ![p] = key]
    /\ cnow' = [cnow EXCEPT ![p] = clock]
    /\ IF cache_data[key] = NoObj
         THEN /\ cdata' = [cdata EXCEPT ![p] = serial + 1]
              /\ heap' = [o \in DOMAIN heap \cup {serial + 1} |->
                            IF o = serial + 1 THEN DefaultData ELSE heap[o]]
         ELSE /\ cdata' = [cdata EXCEPT ![p] = cache_data[key]]
              /\ heap' = heap
    /\ pc' = [pc EXCEPT ![p] = "await"]
    /\ begun' = Append(begun, Len(log))
    /\ UNCHANGED <<clock, cache_data, log>>

\* Return that leaves alone an entry another call made fresh in the meantime
Return_keepfirst(p) ==
    /\ pc[p] = "await"
    /\ IF IsStale(DataTime(ckey[p]), clock)
         THEN /\ heap' = [heap EXCEPT ![cdata[p]] = [time |-> cnow[p], value |-> cinv[p]]]
              /\ cache_data' = [cache_data EXCEPT ![ckey[p]] = cdata[p]]
         ELSE /\ heap' = heap
              /\ cache_data' = cache_data
    /\ log' = Append(log, [key |-> ckey[p], start |-> cnow[p], invoked |-> TRUE,
                            result |-> cinv[p]])
    /\ pc' = [pc EXCEPT ![p] = "idle"]
    /\ EndLocals(p)
    /\ UNCHANGED <<clock, serial, begun>>

\* wrapped, lines 105-107 and 110: func returned its result
Return(p) ==
    /\ pc[p] = "await"
    /\ heap' = [heap EXCEPT ![cdata[p]] = [time |-> cnow[p], value |-> cinv[p]]]
    /\ cache_data' = [cache_data EXCEPT ![ckey[p]] = cdata[p]]
    /\ log' = Append(log, [key |-> ckey[p], start |-> cnow[p], invoked |-> TRUE,
                            result |-> heap'[cdata[p]].value])
    /\ pc' = [pc EXCEPT ![p] = "idle"]
    /\ EndLocals(p)
    /\ UNCHANGED <<clock, serial, begun>>

\* Raise that stores the failure as the value of the entry
Raise_store(p) ==
    /\ pc[p] = "await"
    /\ heap' = [heap EXCEPT ![cdata[p]] = [time |-> cnow[p], value |-> NoValue]]
    /\ cache_data' = [cache_data EXCEPT ![ckey[p]] = cdata[p]]
    /\ log' = Append(log, [key |-> ckey[p], start |-> cnow[p], invoked |-> TRUE,
                            result |-> Raised])
    /\ pc' = [pc EXCEPT ![p] = "idle"]
    /\ EndLocals(p)
    /\ UNCHANGED <<clock, serial, begun>>

\* wrapped, lines 105 and 108-109: func raised, the exception is raised again;
\* a default_data that was made for this call is dropped with the call
Raise(p) ==
    /\ pc[p] = "await"
    /\ heap' = IF cache_data[ckey[p]] # cdata[p] /\ \A q \in InFlight \ {p} : cdata[q] # cdata[p]
                 THEN [o \in DOMAIN heap \ {cdata[p]} |-> heap[o]]
                 ELSE heap
    /\ log' = Append(log, [key |-> ckey[p], start |-> cnow[p], invoked |-> TRUE,
                            result |-> Raised])
    /\ pc' = [pc EXCEPT ![p] = "idle"]
    /\ EndLocals(p)
    /\ UNCHANGED <<clock, cache_data, serial, begun>>

\* the calls are made one after the other
NextCacheSeq ==
    \/ ClockTick
    \/ \E p \in Procs, key \in InsKeys : InFlight = {} /\ WrappedHit(p, key)
    \/ \E p \in Procs, key \in InsKeys : InFlight = {} /\ WrappedMiss(p, key)
    \/ \E p \in Procs : Return(p)
    \/ \E p \in Procs : Raise(p)

\* the calls made so far
Started == Len(log) + Cardinality(InFlight)

\* the calls overlap at await func(...)
NextCache ==
    \/ ClockTick
    \/ \E p \in Procs, key \in InsKeys : Started < MaxOverlap /\ WrappedHit(p, key)
    \/ \E p \in Procs, key \in InsKeys : Started < MaxOverlap /\ WrappedMiss(p, key)
    \/ \E p \in Procs : Return(p)
    \/ \E p \in Procs : Raise(p)

(***************************************************************************)
(* cache(ttl): ins_key of a call of a function (uid, chara_id,             *)
(* use_cache=True).  A string is the sequence of its characters, a value   *)
(* is its type with the text str() gives for it.                           *)
(***************************************************************************)
\* inspect.signature(func).parameters, in the order of the declaration
ParamNames == <<"uid", "chara_id", "use_cache">>

\* the characters of the names of the parameters
NameText(name) ==
    CASE name = "uid" -> <<"u", "i", "d">>
      [] name = "chara_id" -> <<"c", "h", "a", "r", "a", "_", "i", "d">>
      [] name = "use_cache" -> <<"u", "s", "e", "_", "c", "a", "c", "h", "e">>

\* the values the calls pass for uid and chara_id: 1, "1" and "1|chara_id_1"
ArgVals ==
    { [ty |-> "int", txt |-> <<"1">>],
      [ty |-> "str", txt |-> <<"1">>],
      [ty |-> "str", txt |-> <<"1", "|", "c", "h", "a", "r", "a", "_", "i", "d", "_", "1">>] }

\* the values the calls pass for use_cache
PyTrue == [ty |-> "bool", txt |-> <<"T", "r", "u", "e">>]
PyFalse == [ty |-> "bool", txt |-> <<"F", "a", "l", "s", "e">>]

\* the parameters that have a default, with the default
Defaults == [n \in {"use_cache"} |-> PyTrue]

\* the values a parameter is given in the calls
ValsOf(name) == IF name = "use_cache" THEN {PyTrue, PyFalse} ELSE ArgVals

\* a call binds: no parameter is given twice, each one without default is given
Binds(call) ==
    /\ Len(call.args) <= Len(ParamNames)
    /\ \A i \in 1..Len(ParamNames) :
          /\ ~(i <= Len(call.args) /\ ParamNames[i] \in DOMAIN call.kw)
          /\ i <= Len(call.args) \/ ParamNames[i] \in DOMAIN call.kw
                \/ ParamNames[i] \in DOMAIN Defaults

\* the calls: up to three positional arguments, the others by keyword
Calls ==
    { call \in
        UNION { [args : UNION {[1..n -> ArgVals \cup {PyTrue, PyFalse}] : n \in 0..Len(ParamNames)},
                 kw : [names -> ArgVals \cup {PyTrue, PyFalse}]] :
                names \in SUBSET {ParamNames[i] : i \in 1..Len(ParamNames)} } :
        /\ Binds(call)
        /\ \A i \in 1..Len(call.args) : call.args[i] \in ValsOf(ParamNames[i])
        /\ \A n \in DOMAIN call.kw : call.kw[n] \in ValsOf(n) }

\* lines 97-98: bind(*args, **kw) and apply_defaults(): the value of each
\* parameter, in the order of the declaration
Bound(call) ==
    [i \in 1..Len(ParamNames) |->
        IF i <= Len(call.args) THEN call.args[i]
        ELSE IF ParamNames[i] \in DOMAIN call.kw THEN call.kw[ParamNames[i]]
        ELSE Defaults[ParamNames[i]]]

\* line 99: f'{k}_{v}'
Render(name, v) == NameText(name) \o <<"_">> \o v.txt

\* line 99: '|'.join of the first n items
RECURSIVE JoinFirst(_, _)
JoinFirst(b, n) ==
    IF n = 0 THEN <<>>
    ELSE IF n = 1 THEN Render(ParamNames[1], b[1])
    ELSE JoinFirst(b, n - 1) \o <<"|">> \o Render(ParamNames[n], b[n])

\* lines 97-99: ins_key of a call
InsKey(call) == JoinFirst(Bound(call), Len(ParamNames))

InitKey ==
    /\ kcall \in [1..2 -> Calls]
    /\ kkey = [i \in 1..2 |-> <<>>]

\* wrapped, lines 97-99, in call i
MakeKey(i) ==
    /\ kkey[i] = <<>>
    /\ kkey' = [kkey EXCEPT ![i] = InsKey(kcall[i])]
    /\ UNCHANGED kcall

NextKey == \E i \in 1..2 : MakeKey(i)

(***************************************************************************)
(* check_resource                                                          *)
(***************************************************************************)
Paths == {"a.png", "b.json"}

\* two file contents, each named by its md5
Hashes == {1, 2}

Absent == 0     \* file_path.exists() is false

\* the entries of a resource list
Resources == [path : Paths, lock : BOOLEAN, hash : Hashes]

\* the resource lists that are read
ResourceLists == UNION {[1..n -> Resources] : n \in 0..MaxEntries}

\* KeepFile that tests the hash whatever lock is
KeepFile_hashonly(lock, md5, hash) == md5 = hash

\* line 131: not resource['lock'] or md5(file) == resource['hash']
KeepFile(lock, md5, hash) == ~lock \/ md5 = hash

\* the file a download that succeeded leaves at path: the content received
DownloadedFs(f, path, h) == [f EXCEPT ![path] = h]

\* the files after a download that failed: as before it
FailedFs(f, path) == f

InitResource ==
    /\ rpc = "start"
    /\ resource_list = <<>>
    /\ ridx = 0
    /\ flag = FALSE
    /\ fs \in [Paths -> {Absent} \cup Hashes]
    /\ fs0 = fs
    /\ rfetch = "none"
    /\ rseen = <<>>
    /\ rops = <<>>

\* lines 119-126: the request or the decoding of the list fails
FetchFail ==
    /\ rpc = "start"
    /\ rpc' = "done"
    /\ rfetch' = "failed"
    /\ UNCHANGED <<resource_list, ridx, flag, fs, fs0, rseen, rops>>

\* lines 119-123 and 127: the list is read
FetchOk(list) ==
    /\ rpc = "start"
    /\ resource_list' = list
    /\ ridx' = 1
    /\ flag' = FALSE
    /\ rpc' = "loop"
    /\ rfetch' = "ok"
    /\ UNCHANGED <<fs, fs0, rseen, rops>>

\* lines 128-135: the next entry is examined
Examine ==
    /\ rpc = "loop"
    /\ ridx <= Len(resource_list)
    /\ LET resource == resource_list[ridx]
           file == fs[resource.path]
       IN  /\ rseen' = Append(rseen, file)
           /\ IF file # Absent
                THEN IF KeepFile(resource.lock, file, resource.hash)
                      THEN /\ rops' = Append(rops, <<"keep">>)
                           /\ ridx' = ridx + 1
                           /\ UNCHANGED <<rpc, fs, flag>>
                      ELSE /\ fs' = [fs EXCEPT ![resource.path] = Absent]
                           /\ rops' = Append(rops, <<"delete">>)
                           /\ flag' = TRUE
                           /\ rpc' = "download"
                           /\ UNCHANGED ridx
                ELSE /\ rops' = Append(rops, <<>>)
                     /\ flag' = TRUE
                     /\ rpc' = "download"
                     /\ UNCHANGED <<ridx, fs>>
    /\ UNCHANGED <<resource_list, fs0, rfetch>>

\* lines 136-140: the download succeeds
DownloadOk(h) ==
    /\ rpc = "download"
    /\ fs' = DownloadedFs(fs, resource_list[ridx].path, h)
    /\ rops' = [rops EXCEPT ![ridx] = Append(@, "download_ok")]
    /\ ridx' = ridx + 1
    /\ rpc' = "loop"
    /\ UNCHANGED <<resource_list, flag, fs0, rfetch, rseen>>

\* DownloadFail that leaves the loop
DownloadFail_abort ==
    /\ rpc = "download"
    /\ fs' = FailedFs(fs, resource_list[ridx].path)
    /\ rops' = [rops EXCEPT ![ridx] = Append(@, "download_fail")]
    /\ ridx' = ridx + 1
    /\ rpc' = "done"
    /\ UNCHANGED <<resource_list, flag, fs0, rfetch, rseen>>

\* lines 136-142: the download fails, the exception is logged
DownloadFail ==
    /\ rpc = "download"
    /\ fs' = FailedFs(fs, resource_list[ridx].path)
    /\ rops' = [rops EXCEPT ![ridx] = Append(@, "download_fail")]
    /\ ridx' = ridx + 1
    /\ rpc' = "loop"
    /\ UNCHANGED <<resource_list, flag, fs0, rfetch, rseen>>

\* lines 128 and 143-146: the list is exhausted
LoopEnd ==
    /\ rpc = "loop"
    /\ ridx > Len(resource_list)
    /\ rpc' = "done"
    /\ UNCHANGED <<resource_list, ridx, flag, fs, fs0, rfetch, rseen, rops>>

NextResource ==
    \/ FetchFail
    \/ \E list \in ResourceLists : FetchOk(list)
    \/ Examine
    \/ \E h \in Hashes : DownloadOk(h)
    \/ DownloadFail
    \/ LoopEnd

\* check_resource is not running
ResourceIdle ==
    /\ rpc = "done"
    /\ resource_list = <<>>
    /\ ridx = 0
    /\ flag = FALSE
    /\ fs = [pt \in Paths |-> Absent]
    /\ fs0 = fs
    /\ rfetch = "none"
    /\ rseen = <<>>
    /\ rops = <<>>

(***************************************************************************)
(* get_data.py: the cache-wrapped API functions.  get_use_cookie,          *)
(* get_own_cookie, check_retcode and the HTTP client are collaborators:    *)
(* each of their answers is one the caller can get.                        *)
(***************************************************************************)
\* the functions with the while True loop, lines 17-25, 51-59, 70-78
LoopFns == {"get_abyss_data", "get_player_card_data", "get_chara_detail_data"}

\* the functions decorated with cache(ttl=1 hour)
ApiFns == LoopFns \cup {"get_chara_skill_data", "get_monthinfo_data"}

\* what the functions return
Message == [kind |-> "message", n |-> 0]
PyNone == [kind |-> "None", n |-> 0]
Failure == [kind |-> "raised", n |-> 0]
Data(n) == [kind |-> "data", n |-> n]

\* lines 20, 54, 73, 86, 105: the value returned when there is no cookie
NoCookieResult(fn) == IF fn = "get_chara_skill_data" THEN PyNone ELSE Message

\* lines 24, 58, 77, 115: the response goes through check_retcode
HasCheck(fn) == fn # "get_chara_skill_data"

\* a counter of one call that stops at MaxLoop
Count(n) == IF n < MaxLoop THEN n + 1 ELSE n

\* ApiIsStale with a window of ApiTtl open at its end
ApiIsStale_ge(tm, t) == tm = NoTime \/ t - tm >= ApiTtl

\* tool.py line 103 with ttl = ApiTtl
ApiIsStale(tm, t) == tm = NoTime \/ t - tm > ApiTtl

\* tool.py line 100
ApiDefault == [time |-> NoTime, value |-> PyNone]

\* ApiStored that keeps responses only
ApiStored_dataonly(entry, v, t) == IF v.kind = "data" THEN [time |-> t, value |-> v] ELSE entry

\* tool.py lines 105-107: the entry after func returned v in a call with now = t
ApiStored(entry, v, t) == [time |-> t, value |-> v]

InitApi ==
    /\ afn \in ApiFns
    /\ aclock = 0
    /\ acache = [uc \in BOOLEAN |-> ApiDefault]
    /\ apc = "idle"
    /\ akey = TRUE
    /\ anow = 0
    /\ apool = 0
    /\ areq = 0
    /\ arej = 0
    /\ alog = <<>>

\* func returns v: wrapped stores it and returns it (tool.py lines 105-110)
ApiReturn(v, pool, req, rej, cookie, accepted) ==
    /\ acache' = [acache EXCEPT ![akey] = ApiStored(@, v, anow)]
    /\ alog' = Append(alog, [key |-> akey, start |-> anow, invoked |-> TRUE,
                              result |-> v,
                              pool |-> pool, reqs |-> req, rejected |-> rej,
                              cookie |-> cookie, accepted |-> accepted])
    /\ apc' = "idle"
    /\ akey' = TRUE
    /\ anow' = 0
    /\ apool' = 0
    /\ areq' = 0
    /\ arej' = 0

ApiTick ==
    /\ aclock < MaxApiClock
    /\ aclock' = aclock + 1
    /\ UNCHANGED <<afn, acache, apc, akey, anow, apool, areq, arej, alog>>

\* tool.py lines 97-103 and 110: the entry is fresh
ApiHit(uc) ==
    /\ apc = "idle"
    /\ Len(alog) < MaxApiCalls
    /\ ~ApiIsStale(acache[uc].time, aclock)
    /\ alog' = Append(alog, [key |-> uc, start |-> aclock, invoked |-> FALSE,
                              result |-> acache[uc].value,
                              pool |-> 0, reqs |-> 0, rejected |-> 0,
                              cookie |-> FALSE, accepted |-> FALSE])
    /\ UNCHANGED <<afn, aclock, acache, apc, akey, anow, apool, areq, arej>>

\* tool.py lines 97-105: the entry is absent or stale, the function is entered
ApiMiss(uc) ==
    /\ apc = "idle"
    /\ Len(alog) < MaxApiCalls
    /\ ApiIsStale(acache[uc].time, aclock)
    /\ apc' = "cookie"
    /\ akey' = uc
    /\ anow' = aclock
    /\ UNCHANGED <<afn, aclock, acache, apool, areq, arej, alog>>

\* lines 18-20, 52-54, 71-73, 84-86, 103-105: there is no cookie
GetCookieNone ==
    /\ apc = "cookie"
    /\ ApiReturn(NoCookieResult(afn), Count(apool), areq, arej, FALSE, FALSE)
    /\ UNCHANGED <<afn, aclock>>

\* lines 18-21, 52-55, 71-74, 84-88, 103-107: a cookie is given
GetCookieSome ==
    /\ apc = "cookie"
    /\ apool' = Count(apool)
    /\ apc' = "request"
    /\ UNCHANGED <<afn, aclock, acache, akey, anow, areq, arej, alog>>

\* lines 22-23, 56-57, 75-76, 94-97, 113-114: the request is answered
Request ==
    /\ apc = "request"
    /\ IF HasCheck(afn)
         THEN /\ areq' = Count(areq)
              /\ apc' = "check"
              /\ UNCHANGED <<acache, akey, anow, apool, arej, alog>>
         ELSE ApiReturn(Data(Count(areq)), apool, Count(areq), arej, TRUE, FALSE)
    /\ UNCHANGED <<afn, aclock>>

\* the request or the decoding of the answer raises: wrapped raises it again
\* (tool.py lines 108-109)
RequestRaise ==
    /\ apc = "request"
    /\ alog' = Append(alog, [key |-> akey, start |-> anow, invoked |-> TRUE,
                              result |-> Failure,
                              pool |-> apool, reqs |-> Count(areq), rejected |-> arej,
                              cookie |-> TRUE, accepted |-> FALSE])
    /\ apc' = "idle"
    /\ akey' = TRUE
    /\ anow' = 0
    /\ apool' = 0
    /\ areq' = 0
    /\ arej' = 0
    /\ UNCHANGED <<afn, aclock, acache>>

\* CheckAccept that asks for another cookie all the same
CheckAccept_retry ==
    /\ apc = "check"
    /\ apc' = "cookie"
    /\ UNCHANGED <<afn, aclock, acache, akey, anow, apool, areq, arej, alog>>

\* lines 24-25, 58-59, 77-78, 115-116: check_retcode accepts the response
CheckAccept ==
    /\ apc = "check"
    /\ ApiReturn(Data(areq), apool, areq, arej, TRUE, TRUE)
    /\ UNCHANGED <<afn, aclock>>

\* CheckReject that returns the response all the same
CheckReject_return ==
    /\ apc = "check"
    /\ ApiReturn(Data(areq), apool, areq, Count(arej), TRUE, FALSE)
    /\ UNCHANGED <<afn, aclock>>

\* lines 24 and 17, 58 and 51, 77 and 70: check_retcode rejects the response
\* and the loop asks for a cookie again; line 115: get_monthinfo_data ends
\* without a return statement
CheckReject ==
    /\ apc = "check"
    /\ IF afn \in LoopFns
         THEN /\ arej' = Count(arej)
              /\ apc' = "cookie"
              /\ UNCHANGED <<acache, akey, anow, apool, areq, alog>>
         ELSE ApiReturn(PyNone, apool, areq, Count(arej), TRUE, FALSE)
    /\ UNCHANGED <<afn, aclock>>

NextApi ==
    \/ ApiTick
    \/ \E uc \in BOOLEAN : ApiHit(uc)
    \/ \E uc \in BOOLEAN : ApiMiss(uc)
    \/ GetCookieNone
    \/ GetCookieSome
    \/ Request
    \/ RequestRaise
    \/ CheckAccept
    \/ CheckReject

\* no API function is called
ApiIdle ==
    /\ afn = "get_abyss_data"
    /\ aclock = 0
    /\ acache = [uc \in BOOLEAN |-> ApiDefault]
    /\ apc = "idle"
    /\ akey = TRUE
    /\ anow = 0
    /\ apool = 0
    /\ areq = 0
    /\ arej = 0
    /\ alog = <<>>

(***************************************************************************)
(* Specifications: one per component, the other components at rest.        *)
(***************************************************************************)
InitRest == InitDaily /\ InitFreq /\ InitCache

\* no call is being compared
KeyIdle ==
    /\ kcall = [i \in 1..2 |-> [args |-> <<>>, kw |-> EmptyCount]]
    /\ kkey = [i \in 1..2 |-> <<>>]

Init == InitRest /\ KeyIdle /\ ResourceIdle /\ ApiIdle

SpecDaily == Init /\ [][NextDaily /\ UNCHANGED <<fvars, cvars, kvars, rvars, avars>>]_vars

SpecFreq == Init /\ [][NextFreq /\ UNCHANGED <<dvars, cvars, kvars, rvars, avars>>]_vars

SpecCacheSeq == Init /\ [][NextCacheSeq /\ UNCHANGED <<dvars, fvars, kvars, rvars, avars>>]_vars

SpecCache == Init /\ [][NextCache /\ UNCHANGED <<dvars, fvars, kvars, rvars, avars>>]_vars

InitKeyAll == InitRest /\ InitKey /\ ResourceIdle /\ ApiIdle

SpecKey == InitKeyAll /\ [][NextKey /\ UNCHANGED <<dvars, fvars, cvars, rvars, avars>>]_vars

InitResourceAll == InitRest /\ KeyIdle /\ InitResource /\ ApiIdle

SpecResource == InitResourceAll /\ [][NextResource /\ UNCHANGED <<dvars, fvars, cvars, kvars, avars>>]_vars

\* the steps of the API functions, the other components at rest
ApiRest == UNCHANGED <<dvars, fvars, cvars, kvars, rvars>>

InitApiAll == InitRest /\ max = 1 /\ KeyIdle /\ ResourceIdle /\ InitApi

\* one of the functions with the retry loop is called
InitApiLoop == InitApiAll /\ afn \in LoopFns

SpecApi == InitApiAll /\ [][NextApi /\ ApiRest]_vars

\* a function with the retry loop; every await of a call completes; the pool, asked again and again, at some
\* time gives no cookie or a cookie whose response check_retcode accepts
SpecApiFair ==
    /\ InitApiLoop
    /\ [][NextApi /\ ApiRest]_vars
    /\ WF_vars((GetCookieNone \/ GetCookieSome) /\ ApiRest)
    /\ WF_vars((Request \/ RequestRaise) /\ ApiRest)
    /\ WF_vars((CheckAccept \/ CheckReject) /\ ApiRest)
    /\ SF_vars((GetCookieNone \/ CheckAccept) /\ ApiRest)

\* every await of a call completes, nothing is assumed of the pool
SpecApiWeak ==
    /\ InitApiLoop
    /\ [][NextApi /\ ApiRest]_vars
    /\ WF_vars((GetCookieNone \/ GetCookieSome) /\ ApiRest)
    /\ WF_vars((Request \/ RequestRaise) /\ ApiRest)
    /\ WF_vars((CheckAccept \/ CheckReject) /\ ApiRest)

DailyOps == {"check", "get_num", "increase", "reset"}

\* C1: after max calls of increase(key) check(key) is false, and after a
\* following reset(key) check(key) is true, from every state of the limiter.
C1_IncreaseMaxThenCheck ==
    \A k \in Keys :
        /\ incRun[k] >= max => ~CheckRet(k)
        /\ dLastOp = <<"reset", k>> => CheckRet(k)

\* C2: every operation applies the rollover before it is served, so after an
\* operation the stored day is the current day, and get_num(key) returns 0
\* for a key that was not increased on the current day.
C2_RolloverBeforeEveryOperation ==
    /\ dLastOp[1] \in DailyOps => today = DayOfMonth(date)
    /\ \A k \in Keys : (dLastOp = <<"get_num", k>> /\ incToday[k] = 0) => dRet = 0

\* C3: a check on a later date than the previous check leaves every count
\* accumulated before it reading 0, whatever the number of days between them.
C3_LaterDateClearsCounts ==
    [][\A k \in Keys :
         (Check(k) /\ lastCheckDate # 0 /\ date > lastCheckDate)
            => \A j \in Keys : Get(count', j) = 0]_vars

\* C4: check(key) returns true iff the count of key after the rollover is
\* less than max, and when the current day is the stored day it changes
\* neither the stored day nor the count that get_num reads for any key.
C4_CheckIsPureRead ==
    [][\A k \in Keys :
         Check(k) =>
            /\ dRet' = ((IF DayOfMonth(date) = today THEN Get(count, k) ELSE 0) < max)
            /\ DayOfMonth(date) = today =>
                  /\ today' = today
                  /\ \A j \in Keys : Get(count', j) = Get(count, j)]_vars

\* a check on the stored day that refuses a key at its quota while another key holds a count
C4_Witness ==
    \E k \in Keys, j \in Keys :
        /\ dLastOp = <<"check", k>>
        /\ dRet = FALSE
        /\ today = DayOfMonth(date)
        /\ Get(count, k) = max
        /\ j # k /\ Get(count, j) > 0

\* C5: check(key) returns true iff the current time is at least
\* next_time[key], and a key that was never started has next_time 0 and
\* passes check at every time.
C5_CheckIffTimeReached ==
    \A k \in Keys :
        /\ fLastOp = <<"check", k>> => (fRet <=> now >= Get(next_time, k))
        /\ k \notin started => (Get(next_time, k) = 0 /\ FreqCheckRet(k))

\* a check made at the very tick the cooldown of the key ends
C5_Witness ==
    \E k \in Keys :
        /\ fLastOp = <<"check", k>>
        /\ k \in started
        /\ now = Get(next_time, k)
        /\ fRet = TRUE

\* the window of the last start(key, d) with d > 0 decides check(key)
C6_Window ==
    \A k \in Keys :
        (k \in started /\ startD[k] > 0)
            => (FreqCheckRet(k) <=> now >= startT[k] + startD[k] * TicksPerSec)

\* C6: after start(key, d) with d > 0 at time t, check(key) is false at
\* every time in [t, t+d) and true from t+d on, until the next start(key);
\* start(key, d) changes the result of check for no other key.
C6_CooldownWindow ==
    [][/\ C6_Window'
       /\ \A k \in Keys, d \in Durs :
             FreqStart(k, d) =>
                \A j \in Keys \ {k} : FreqCheckRet(j)' = FreqCheckRet(j)]_vars

\* one key past its cooldown of d > 0 seconds, checked at the tick it ends,
\* while the other key is still cooling down
C6_Witness ==
    \E k \in Keys, j \in Keys :
        /\ fLastOp = <<"check", k>>
        /\ k \in started /\ startD[k] > 0
        /\ now = startT[k] + startD[k] * TicksPerSec
        /\ fRet = TRUE
        /\ j # k /\ j \in started /\ ~FreqCheckRet(j)

\* C7: start(key, d) with d <= 0 sets next_time[key] to the current time
\* plus 60 seconds, and with d > 0 to the current time plus d seconds,
\* whatever next_time[key] was.
C7_StartSetsNextTime ==
    \A k \in Keys, d \in Durs :
        fLastOp = <<"start", k, d>>
            => Get(next_time, k) = now + (IF d <= 0 THEN 60 ELSE d) * TicksPerSec

\* a start with the default cooldown_time 0 that overwrote a running cooldown
C7_Witness ==
    \E k \in Keys :
        /\ fLastOp = <<"start", k, 0>>
        /\ next_time[k] = now + 60 * TicksPerSec
        /\ startT[k] > Epoch

\* C8: left(key) returns at least 1 while the cooldown of key has not
\* expired, and 1 at the instant the cooldown expires.
C8_LeftAtLeastOne ==
    \A k \in Keys :
        fLastOp = <<"left", k>> =>
            /\ now < Get(next_time, k) => fRet >= 1
            /\ now = Get(next_time, k) => fRet = 1

\* left called at the instant the cooldown expires
C8_Witness ==
    \E k \in Keys :
        /\ fLastOp = <<"left", k>>
        /\ k \in started
        /\ now = next_time[k]
        /\ fRet = 1

\* the calls of the log made with the key of call j before call j
Earlier(j) == {i \in 1..(j - 1) : log[i].key = log[j].key}

\* the calls before call j, with its key, whose invocation of func succeeded
Stored(j) == {i \in Earlier(j) : log[i].invoked /\ log[i].result # Raised}

\* the last of them
LastStored(j) == CHOOSE i \in Stored(j) : \A h \in Stored(j) : h <= i

\* C9 as stated: in a sequential run, any two calls with identical arguments
\* that return and whose start times differ by at most ttl share one
\* invocation of func: the later of them invokes nothing and both return
\* that invocation's result.
C9_AnyTwoCallsWithinTtl ==
    \A j \in 1..Len(log) : \A i \in Earlier(j) :
        (/\ log[i].result # Raised
         /\ log[j].result # Raised
         /\ log[j].start - log[i].start <= Ttl) =>
            /\ ~log[j].invoked
            /\ log[j].result = log[i].result

\* C9 (amended): in a sequential run, after a call that invoked func with
\* success, every call with identical arguments that starts at most ttl
\* later invokes nothing and returns that invocation's result; a call
\* invokes func iff no invocation for its key succeeded before or the last
\* one that did started more than ttl before it (an age of ttl is fresh).
C9_FreshWithinTtlOfStore ==
    \A j \in 1..Len(log) :
        /\ \A i \in Stored(j) :
              log[j].start - log[i].start <= Ttl =>
                  (~log[j].invoked /\ log[j].result = log[i].result)
        /\ log[j].invoked <=>
              (Stored(j) = {} \/ log[j].start - log[LastStored(j)].start > Ttl)

\* a miss, a hit on the entry at age ttl exactly, a miss once the age exceeds ttl
C9_Witness ==
    \E i, j, h \in 1..Len(log) :
        /\ i < j /\ j < h
        /\ log[i].key = log[j].key /\ log[j].key = log[h].key
        /\ log[i].invoked /\ log[i].result # Raised
        /\ ~log[j].invoked /\ log[j].start = log[i].start + Ttl
        /\ log[j].result = log[i].result
        /\ log[h].invoked /\ log[h].start > log[i].start + Ttl
        /\ log[h].result # Raised /\ log[h].result # log[i].result

\* what the log tells after a failure: the next call with the key invokes
\* func again, and a hit returns the result of an earlier success for its key
C10_Log ==
    \A j \in 1..Len(log) :
        /\ \A i \in Earlier(j) :
              (log[i].result = Raised /\ \A h \in Earlier(j) : h <= i) => log[j].invoked
        /\ ~log[j].invoked =>
              \E i \in Stored(j) : log[i].result = log[j].result

\* C10: when func raises on an absent or stale entry the exception reaches
\* the caller and the entry of the key (value and time) is as it was before
\* the call, so the next call with the key invokes func again; a value
\* returned on a hit is the result of an earlier successful invocation.
C10_FailureLeavesEntry ==
    [][/\ \A p \in Procs :
             Raise(p) =>
                /\ log'[Len(log')].result = Raised
                /\ \A k \in InsKeys : Entry(k)' = Entry(k)
       /\ C10_Log']_vars

\* func raised on a stale entry, the next call with the key invoked func again
C10_Witness ==
    \E i, j, h \in 1..Len(log) :
        /\ i < j /\ h = j + 1
        /\ log[i].key = log[j].key /\ log[j].key = log[h].key
        /\ log[i].invoked /\ log[i].result # Raised
        /\ log[j].invoked /\ log[j].result = Raised
        /\ log[j].start > log[i].start + Ttl
        /\ log[h].invoked /\ log[h].result # Raised
        /\ Entry(log[h].key).value = log[h].result

\* C11: two calls have the same ins_key, and so the same cache entry, iff
\* their bound and defaulted argument values are equal parameter by parameter.
C11_SameEntryIffEqualValues ==
    (kkey[1] # <<>> /\ kkey[2] # <<>>)
        => (kkey[1] = kkey[2] <=> Bound(kcall[1]) = Bound(kcall[2]))

\* call i and the later ended call j, both invocations that succeeded, overlapped
Overlapped(i, j) ==
    /\ i \in Stored(j)
    /\ log[j].invoked /\ log[j].result # Raised
    /\ begun[log[j].result] < i

\* no call after call j wrote the entry of its key
LastWrite(j) ==
    \A h \in (j + 1)..Len(log) :
        ~(log[h].key = log[j].key /\ log[h].invoked /\ log[h].result # Raised)

\* C12: two calls with the same key that found the entry absent or stale
\* and overlap at await func both invoke func, each returns the result of
\* its own invocation, and once both ended the entry holds the value
\* written by the one that ended last.
C12_LastWriterWins ==
    \A j \in 1..Len(log) : \A i \in 1..(j - 1) :
        Overlapped(i, j) =>
            /\ log[i].result # log[j].result
            /\ LastWrite(j) => Entry(log[j].key).value = log[j].result

\* of two overlapping calls the one that began first ended last, its value is the entry's
C12_Witness ==
    \E j \in 1..Len(log) : \E i \in 1..(j - 1) :
        /\ Overlapped(i, j)
        /\ log[j].result < log[i].result
        /\ j = Len(log)
        /\ Entry(log[j].key).value = log[j].result

\* C13: a successful invocation on an absent or stale entry stores its
\* result with the time of the moment the entry is replaced, so the entry
\* is fresh for a whole ttl from then on.
C13_StoredAtIsWriteTime ==
    [][\A p \in Procs, k \in InsKeys :
         (Return(p) /\ k = ckey[p]) =>
            /\ Entry(k)'.time = clock
            /\ ~IsStale(Entry(k)'.time, clock + Ttl)]_vars

\* C18: the time of the entry of a key never decreases, whatever the
\* interleaving of the calls with that key.
C18_StoredAtNeverDecreases ==
    [][\A k \in InsKeys : Entry(k).time <= Entry(k)'.time]_vars

\* the entries examined so far that were handled to the end
Handled == IF rpc = "download" THEN 1..(ridx - 1) ELSE 1..Len(rops)

\* no entry after entry i has the path of entry i
LastOfPath(i) ==
    \A j \in (i + 1)..Len(rops) : resource_list[j].path # resource_list[i].path

\* C14: check_resource does not raise for a failed fetch or download: when
\* reading the list fails it ends with no file deleted or downloaded; when
\* a download fails the later entries are still examined and downloaded
\* when needed, and what was done before is kept (a file deleted before
\* its failed download stays absent).
C14_FailuresAreTolerated ==
    /\ rpc \in {"start", "loop", "download", "done"}
    /\ rfetch = "failed" => (rpc = "done" /\ fs = fs0 /\ rops = <<>>)
    /\ (rfetch = "ok" /\ rpc = "done") =>
          /\ Len(rops) = Len(resource_list)
          /\ \A i \in 1..Len(rops) :
                /\ (rseen[i] = Absent \/ ~KeepFile(resource_list[i].lock, rseen[i], resource_list[i].hash))
                      => rops[i][Len(rops[i])] \in {"download_ok", "download_fail"}
                /\ (rops[i] = <<"delete", "download_fail">> /\ LastOfPath(i))
                      => fs[resource_list[i].path] = Absent
                /\ (rops[i] = <<"keep">> /\ LastOfPath(i))
                      => fs[resource_list[i].path] = rseen[i]

\* the download of the first entry failed after its file was deleted, the
\* second entry was downloaded all the same, the first file stays absent
C14_Witness ==
    /\ rpc = "done"
    /\ Len(rops) = 2
    /\ rops[1] = <<"delete", "download_fail">>
    /\ rops[2] = <<"download_ok">>
    /\ resource_list[1].path # resource_list[2].path
    /\ fs[resource_list[1].path] = Absent
    /\ fs[resource_list[2].path] # Absent

\* C15: an existing file is neither deleted nor downloaded when lock is
\* false or its md5 is the hash of the list; an existing file with lock
\* true and another md5 is deleted and then downloaded; a file that does
\* not exist is downloaded with no delete.
C15_DeleteThenDownload ==
    \A i \in 1..Len(rops) :
        LET r == resource_list[i]
            done == i \in Handled
        IN  /\ (rseen[i] # Absent /\ (~r.lock \/ rseen[i] = r.hash))
                  => rops[i] = <<"keep">>
            /\ (rseen[i] # Absent /\ r.lock /\ rseen[i] # r.hash)
                  => IF done
                      THEN rops[i] \in {<<"delete", "download_ok">>, <<"delete", "download_fail">>}
                      ELSE rops[i] = <<"delete">> /\ fs[r.path] = Absent
            /\ rseen[i] = Absent
                  => IF done
                      THEN rops[i] \in {<<"download_ok">>, <<"download_fail">>}
                      ELSE rops[i] = <<>>

\* an unlocked file with another md5 was kept, a locked one was deleted and downloaded
C15_Witness ==
    /\ rpc = "done"
    /\ Len(rops) = 2
    /\ \E i, j \in 1..2 :
          /\ ~resource_list[i].lock /\ rseen[i] # Absent /\ rseen[i] # resource_list[i].hash
          /\ rops[i] = <<"keep">>
          /\ resource_list[j].lock /\ rseen[j] # Absent /\ rseen[j] # resource_list[j].hash
          /\ rops[j] = <<"delete", "download_ok">>

(***************************************************************************)
(* C16  In get_abyss_data, get_player_card_data and get_chara_detail_data  *)
(* one invocation returns the 'no cookie' message only when get_use_cookie *)
(* gave no cookie, returns a response only when check_retcode accepted     *)
(* that very response, raises only with a cookie in hand (never because    *)
(* the cookies ran out), never returns None, and asks get_use_cookie for a *)
(* cookie once more after every response that check_retcode rejected.      *)
(***************************************************************************)
C16_LoopReturns ==
    afn \in LoopFns =>
        /\ \A i \in 1..Len(alog) :
              alog[i].invoked =>
                 /\ alog[i].result = Message => ~alog[i].cookie
                 /\ alog[i].result.kind = "data" =>
                        alog[i].accepted /\ alog[i].result.n = alog[i].reqs
                 /\ alog[i].result = Failure => alog[i].cookie
                 /\ alog[i].result # PyNone
                 /\ alog[i].pool = Count(alog[i].rejected)
        /\ apc = "cookie" => apool = arej
        /\ apc \in {"request", "check"} => apool = Count(arej)

\* an invocation answered 'no cookie' after a rejected response
C16_Witness ==
    /\ afn \in LoopFns
    /\ \E i \in 1..Len(alog) :
          alog[i].invoked /\ alog[i].result = Message /\ alog[i].rejected > 0

(***************************************************************************)
(* C17  Every invocation of the retry loop of get_abyss_data,              *)
(* get_player_card_data and get_chara_detail_data returns in the end, when *)
(* the pool, asked again and again, at some time gives no cookie or a      *)
(* cookie whose response check_retcode accepts.                            *)
(***************************************************************************)
C17_LoopReturnsInTheEnd ==
    (afn \in LoopFns /\ apc # "idle") ~> (apc = "idle")

\* an invocation returned a response after MaxLoop or more rejected ones
C17_Witness ==
    /\ afn \in LoopFns
    /\ \E i \in 1..Len(alog) :
          alog[i].accepted /\ alog[i].rejected = MaxLoop

====
